---------------------------- MODULE Spec2Model ----------------------------
(***************************************************************************)
(* d3dshot_screen_grabber, node.py: main() starts a d3dshot capture,       *)
(* initialises the ROS node, builds a D3DShotPublisher and runs its spin() *)
(* loop inside a `with` block whose __exit__ stops the capture.            *)
(*                                                                         *)
(* The main thread is modelled statement by statement (pc).  The d3dshot   *)
(* capture thread, the ROS master's subscribers, the wall clock and the    *)
(* process signal are environment actions that interleave with it.        *)
(***************************************************************************)
EXTENDS Naturals, Integers, Sequences, FiniteSets

\* ---------------------------------------------------------------- bounds
\* largest number of connections a topic's get_num_connections() reports
MaxSubs == 1
\* largest value of the wall clock read by rospy.Time.now()
MaxTime == 2
\* largest number of spinOnce() calls of one run
MaxCycles == 2

VARIABLES
    pc,                    \* statement main() is at
    exc,                   \* exception that ended (or is ending) main()
    exit_code,             \* -1 while the process runs, then its exit status
    pub_raw,               \* not args.no_raw
    pub_compressed,        \* not args.no_compressed
    rate,                  \* args.rate
    region,                \* args.region: None or (x, y, w, h)
    window_rect,           \* (left, top, right, bottom) of the window on screen
    extents,               \* main local: the region given to d3dshot
    img_width,             \* main local
    img_height,            \* main local
    is_capturing,          \* dshot.is_capturing
    capture_calls,         \* successful dshot.capture(..) calls so far
    stop_calls,            \* dshot.stop() calls so far
    node_init,             \* rospy.init_node(..) has run
    _pub_raw,              \* self._pub_raw is a Publisher (not None)
    _pub_compressed,       \* self._pub_compressed is a Publisher
    _pub_cinfo,            \* self._pub_cinfo is a Publisher
    _cam_info_msg,         \* self._cam_info_msg
    raw_conns,             \* connections to N/image_rect_color
    compressed_conns,      \* connections to N/image_rect_color/compressed
    shutdown,              \* rospy.is_shutdown()
    now,                   \* rospy.Time.now()
    have_raw_subs,         \* spinOnce local
    have_compressed_subs,  \* spinOnce local
    img,                   \* spinOnce local: channel order of the frame
    stamp,                 \* spinOnce local
    cycle,                 \* spinOnce() calls so far
    events,                \* calls made by the current spinOnce(), in order
    msgs,                  \* messages published by the current spinOnce()
    active_at_check,       \* value of dshot.is_capturing read at line 269
    conns_at_gate          \* connection counts read at lines 274 and 275

cfgVars   == <<pub_raw, pub_compressed, rate, region, window_rect>>
dimVars   == <<extents, img_width, img_height>>
dshotVars == <<is_capturing, capture_calls, stop_calls>>
rosVars   == <<node_init, _pub_raw, _pub_compressed, _pub_cinfo>>
envVars   == <<raw_conns, compressed_conns, shutdown, now>>
locVars   == <<have_raw_subs, have_compressed_subs, img, stamp>>
obsVars   == <<cycle, events, msgs, active_at_check, conns_at_gate>>
vars == <<pc, exc, exit_code, cfgVars, dimVars, dshotVars, rosVars,
          _cam_info_msg, envVars, locVars, obsVars>>

\* no value yet (None, or a local not yet assigned)
NoStamp == -1
NoRegion == <<>>
NoExtents == <<>>
NoFrame == <<>>
NoConns == [raw |-> -1, compressed |-> -1]

\* ------------------------------------------------------- pure functions
\* lines 223-235: the topics, relative to the namespace
RawTopic == "image_rect_color"
CompressedTopic == "image_rect_color/compressed"
CameraInfoTopic == "image_rect_color/camera_info"

\* line 49: the default of --rate
DefaultRate == 30

\* line 209: the default frame_id, which setup_d3dshot_pub leaves in place
DefaultFrameId == "camera_rgb_optical_frame"

\* the client rectangle of the captured window (left, top, right, bottom):
\* 3 by 5 pixels, away from the origin
DefaultWindow == <<1, 2, 4, 7>>

\* --rate values, window rectangles and --region values of the runs whose
\* arguments vary
Rates == {-1, 0, DefaultRate}
Windows == {DefaultWindow}
Regions == {NoRegion, <<1, 0, 3, 1>>, <<0, 1, 0, 2>>, <<0, 0, 2, -1>>}

\* lines 79-81, 91-92: right - left and bottom - top
width_of(ext) == ext[3] - ext[1]
height_of(ext) == ext[4] - ext[2]

\* lines 84-89: the extents moved and resized by --region (x y w h)
region_extents(ext, reg) ==
    IF reg = NoRegion
    THEN ext
    ELSE LET left == ext[1] + reg[1]
             top  == ext[2] + reg[2]
         IN  <<left, top, left + reg[3], top + reg[4]>>

\* a float that holds the integer n, and the float n/2.0, as fractions
float(n) == <<n, 1>>
\* n/2 between integers, which rounds down
half_floor(n) == <<n \div 2, 1>>

\* lines 330-331, 338-339: n/2.0
half(n) == <<n, 2>>

\* lines 319-341: _create_cam_info_msg
_create_cam_info_msg(frame_id, width, height) ==
    [built  |-> TRUE,
     stamp  |-> NoStamp,
     frame_id |-> frame_id,
     width  |-> width,
     height |-> height,
     distortion_model |-> "plumb_bob",
     D |-> [i \in 1..5 |-> float(0)],
     K |-> <<half(width), float(0),     half(width),
             float(0),    half(height), half(height),
             float(0),    float(0),     float(1)>>,
     R |-> <<float(1), float(0), float(0),
             float(0), float(1), float(0),
             float(0), float(0), float(1)>>,
     P |-> <<half(width), float(0),     half(width),  float(0),
             float(0),    half(height), half(height), float(0),
             float(0),    float(0),     float(1),     float(0)>>]

\* a CameraInfo() made anew for each publish, with only its stamp set
fresh_cam_info_msg(msg, s) == [_create_cam_info_msg("", 0, 0) EXCEPT !.stamp = s]

\* line 316: self._cam_info_msg.header.stamp = stamp
set_header_stamp(msg, s) == [msg EXCEPT !.stamp = s]

\* a CameraInfo publisher that goes with the raw publisher only
registers_cinfo_raw_only(raw, compressed) == raw

\* line 232: no CameraInfo publisher unless an image publisher exists
registers_cinfo(raw, compressed) == raw \/ compressed

\* line 262: rospy.Rate(hz) divides 1e9 by hz
Rate_raises(hz) == hz = 0

\* a frame as d3dshot delivers it: channel order R, G, B
RGBFrame == <<"R", "G", "B">>

\* cv2.cvtColor(img, cv2.COLOR_RGB2BGR): swaps the first and third channel
cvtColor_RGB2BGR(f) == [i \in DOMAIN f |-> f[Len(f) + 1 - i]]

\* a gate that answers for the publisher alone and never asks for the count
have_raw_subs_no_count(pub, conns) == pub

\* the _have_raw_subs property: False when the publisher was never created
_have_raw_subs(pub, conns) == IF pub THEN conns > 0 ELSE FALSE

\* a gate that asks for the count of a publisher that was never created
have_compressed_subs_no_pub(pub, conns) == conns > 0

\* the _have_compressed_subs property
_have_compressed_subs(pub, conns) == IF pub THEN conns > 0 ELSE FALSE

\* a stamp read from the clock again for each message
msg_stamp_fresh(local_stamp, time_now) == time_now

\* header.stamp of the messages built in spinOnce: the local `stamp`
msg_stamp(local_stamp, time_now) == local_stamp

\* an encoding that converts the colour order again
image_msg_reconverted(topic, frame, s) ==
    [topic |-> topic, stamp |-> s, data |-> cvtColor_RGB2BGR(frame)]

\* the Image / CompressedImage message built from the converted frame
image_msg(topic, frame, s) == [topic |-> topic, stamp |-> s, data |-> frame]

\* an __exit__ that returns True
exit_suppresses_true == TRUE

\* D3DShotPublisher.__exit__ returns None: an exception in flight propagates
exit_suppresses == FALSE

\* an interpreter status that does not tell an exception from a return
status_always_zero(e) == 0

\* the exit status of the interpreter: 0 unless an exception left main()
status_of(e) == IF e = "none" THEN 0 ELSE 1

\* ---------------------------------------------------------------- init
InitState ==
    /\ pc = "find_window"
    /\ exc = "none"
    /\ exit_code = -1
    /\ extents = NoExtents
    /\ img_width = 0
    /\ img_height = 0
    /\ is_capturing = FALSE
    /\ capture_calls = 0
    /\ stop_calls = 0
    /\ node_init = FALSE
    /\ _pub_raw = FALSE
    /\ _pub_compressed = FALSE
    /\ _pub_cinfo = FALSE
    /\ _cam_info_msg = [built |-> FALSE, stamp |-> NoStamp]
    /\ shutdown = FALSE
    /\ now = 0
    /\ have_raw_subs = FALSE
    /\ have_compressed_subs = FALSE
    /\ img = NoFrame
    /\ stamp = NoStamp
    /\ cycle = 0
    /\ events = <<>>
    /\ msgs = <<>>
    /\ active_at_check = TRUE
    /\ conns_at_gate = NoConns

\* a run with the default rate and no --region, with any choice of
\* --no-raw and --no-compressed and any subscribers
Init ==
    /\ InitState
    /\ pub_raw \in BOOLEAN
    /\ pub_compressed \in BOOLEAN
    /\ rate = DefaultRate
    /\ region = NoRegion
    /\ window_rect = DefaultWindow
    /\ raw_conns \in 0..MaxSubs
    /\ compressed_conns \in 0..MaxSubs

\* a run with both channels enabled, with any --rate and any --region
InitArgs ==
    /\ InitState
    /\ pub_raw = TRUE
    /\ pub_compressed = TRUE
    /\ rate \in Rates
    /\ region \in Regions
    /\ window_rect \in Windows
    /\ raw_conns = 0
    /\ compressed_conns = 0

\* an exception leaves main() outside the `with` block: the process ends
Abort(e) ==
    /\ pc' = "done"
    /\ exc' = e
    /\ exit_code' = status_of(e)

\* an exception is raised inside the `with` block: __exit__ runs next
Raise(e) ==
    /\ pc' = "exit"
    /\ exc' = e
    /\ UNCHANGED exit_code

\* ------------------------------------------------------------- main()
\* lines 72-101: look the window up, compute the extents and the image size
FindWindow ==
    /\ pc = "find_window"
    /\ \E found \in BOOLEAN :
         IF found
         THEN /\ extents' = region_extents(window_rect, region)
              /\ img_width' = width_of(extents')
              /\ img_height' = height_of(extents')
              /\ pc' = "setup_d3dshot"
              /\ UNCHANGED <<exc, exit_code>>
         ELSE /\ Abort("NoSuchWindowException")
              /\ UNCHANGED dimVars
    /\ UNCHANGED <<cfgVars, dshotVars, rosVars, _cam_info_msg, envVars,
                   locVars, obsVars>>

\* a setup that ignores the answer of capture(..)
setup_d3dshot_unchecked(started) == FALSE

\* lines 158-159: a capture(..) that answers False raises ValueError
setup_d3dshot_raises(started) == ~started

\* line 110, setup_d3dshot (151-160): dshot.capture(..) answers True or False
setup_d3dshot ==
    /\ pc = "setup_d3dshot"
    /\ \E started \in BOOLEAN :
         /\ is_capturing' = started
         /\ capture_calls' = capture_calls + (IF started THEN 1 ELSE 0)
         /\ IF setup_d3dshot_raises(started)
            THEN Abort("ValueError_start")
            ELSE pc' = "warm_up" /\ UNCHANGED <<exc, exit_code>>
    /\ UNCHANGED <<cfgVars, dimVars,
                   stop_calls, rosVars, _cam_info_msg, envVars,
                   locVars, obsVars>>

\* lines 112-120: time.sleep(1), print the ROS settings
WarmUp ==
    /\ pc = "warm_up"
    /\ pc' = "init_node"
    /\ UNCHANGED <<exc, exit_code, cfgVars, dimVars,
                   dshotVars, rosVars, _cam_info_msg,
                   envVars, locVars, obsVars>>

\* line 127: rospy.init_node(..), which may raise (no master, bad name)
InitNode ==
    /\ pc = "init_node"
    /\ \E ok \in BOOLEAN :
         IF ok
         THEN /\ node_init' = TRUE
              /\ pc' = "construct"
              /\ UNCHANGED <<exc, exit_code>>
         ELSE /\ Abort("ROSInitException")
              /\ UNCHANGED node_init
    /\ UNCHANGED <<cfgVars, dimVars,
                   dshotVars, _pub_raw, _pub_compressed, _pub_cinfo,
                   _cam_info_msg, envVars, locVars, obsVars>>

\* lines 138, 143-147, 208-241: D3DShotPublisher(..) and __enter__
D3DShotPublisher_init ==
    /\ pc = "construct"
    /\ _pub_raw' = pub_raw
    /\ _pub_compressed' = pub_compressed
    /\ _pub_cinfo' = registers_cinfo(pub_raw, pub_compressed)
    /\ _cam_info_msg' =
           _create_cam_info_msg(DefaultFrameId, img_width, img_height)
    /\ pc' = "spin"
    /\ UNCHANGED <<exc, exit_code, cfgVars, dimVars,
                   dshotVars, node_init, envVars,
                   locVars, obsVars>>

\* -------------------------------------------------------------- spin()
\* line 262: r = rospy.Rate(self._rate)
spin ==
    /\ pc = "spin"
    /\ IF Rate_raises(rate)
       THEN Raise("ZeroDivisionError")
       ELSE pc' = "loop_head" /\ UNCHANGED <<exc, exit_code>>
    /\ UNCHANGED <<cfgVars, dimVars,
                   dshotVars, rosVars, _cam_info_msg,
                   envVars, locVars, obsVars>>

\* a loop that never asks rospy.is_shutdown()
spin_forever(is_shutdown) == TRUE

\* line 263: the loop goes on while rospy.is_shutdown() is False
spin_continues(is_shutdown) == ~is_shutdown

\* line 263: while not rospy.is_shutdown(); line 265 calls spinOnce()
LoopHead ==
    /\ pc = "loop_head"
    /\ IF spin_continues(shutdown)
       THEN /\ cycle < MaxCycles
            /\ pc' = "spinOnce"
            /\ cycle' = cycle + 1
            /\ events' = <<>>
            /\ msgs' = <<>>
            /\ active_at_check' = TRUE
            /\ conns_at_gate' = NoConns
            /\ have_raw_subs' = FALSE
            /\ have_compressed_subs' = FALSE
            /\ img' = NoFrame
            /\ stamp' = NoStamp
       ELSE /\ pc' = "exit"
            /\ UNCHANGED <<locVars, obsVars>>
    /\ UNCHANGED <<exc, exit_code, cfgVars, dimVars,
                   dshotVars, rosVars, _cam_info_msg,
                   envVars>>

\* line 266: r.sleep(); rospy raises ROSInterruptException from a sleep
\* that a shutdown interrupts
RateSleep ==
    /\ pc = "sleep"
    /\ \E interrupted \in BOOLEAN :
         IF interrupted /\ shutdown
         THEN Raise("ROSInterruptException")
         ELSE pc' = "loop_head" /\ UNCHANGED <<exc, exit_code>>
    /\ UNCHANGED <<cfgVars, dimVars,
                   dshotVars, rosVars, _cam_info_msg, envVars,
                   locVars, obsVars>>

\* ---------------------------------------------------------- spinOnce()
\* lines 269-270: raise ValueError unless dshot.is_capturing
spinOnce_raises_inactive(capturing) == ~capturing

\* a spinOnce that pulls the frame before it reads the gates
CheckCapturing_then_pull ==
    /\ pc = "spinOnce"
    /\ events' = Append(events, "is_capturing")
    /\ active_at_check' = is_capturing
    /\ IF spinOnce_raises_inactive(is_capturing)
       THEN Raise("ValueError_not_active")
       ELSE pc' = "get_latest_frame" /\ UNCHANGED <<exc, exit_code>>
    /\ UNCHANGED <<cfgVars, dimVars,
                   dshotVars, rosVars, _cam_info_msg, envVars,
                   locVars, cycle, msgs, conns_at_gate>>

\* lines 269-270
CheckCapturing ==
    /\ pc = "spinOnce"
    /\ events' = Append(events, "is_capturing")
    /\ active_at_check' = is_capturing
    /\ IF spinOnce_raises_inactive(is_capturing)
       THEN Raise("ValueError_not_active")
       ELSE pc' = "have_raw_subs" /\ UNCHANGED <<exc, exit_code>>
    /\ UNCHANGED <<cfgVars, dimVars,
                   dshotVars, rosVars, _cam_info_msg, envVars,
                   locVars, cycle, msgs, conns_at_gate>>

\* line 274: have_raw_subs = self._have_raw_subs
GateRaw ==
    /\ pc = "have_raw_subs"
    /\ have_raw_subs' = _have_raw_subs(_pub_raw, raw_conns)
    /\ conns_at_gate' = [conns_at_gate EXCEPT !.raw = raw_conns]
    /\ events' = Append(events, "have_raw_subs")
    /\ pc' = "have_compressed_subs"
    /\ UNCHANGED <<exc, exit_code, cfgVars, dimVars,
                   dshotVars, rosVars, _cam_info_msg,
                   envVars, have_compressed_subs, img, stamp, cycle, msgs,
                   active_at_check>>

\* line 275: have_compressed_subs = self._have_compressed_subs
GateCompressed ==
    /\ pc = "have_compressed_subs"
    /\ have_compressed_subs' =
           _have_compressed_subs(_pub_compressed, compressed_conns)
    /\ conns_at_gate' = [conns_at_gate EXCEPT !.compressed = compressed_conns]
    /\ events' = Append(events, "have_compressed_subs")
    /\ pc' = "any_subs"
    /\ UNCHANGED <<exc, exit_code, cfgVars, dimVars,
                   dshotVars, rosVars, _cam_info_msg,
                   envVars, have_raw_subs, img, stamp, cycle, msgs,
                   active_at_check>>

\* a cycle that is never skipped
spinOnce_never_skips(raw, compressed) == FALSE

\* line 276: the cycle is skipped when nobody is subscribed
spinOnce_skips(raw, compressed) == ~(raw \/ compressed)

\* lines 276-277
AnySubs ==
    /\ pc = "any_subs"
    /\ pc' = IF spinOnce_skips(have_raw_subs, have_compressed_subs)
             THEN "sleep" ELSE "get_latest_frame"
    /\ UNCHANGED <<exc, exit_code, cfgVars, dimVars,
                   dshotVars, rosVars, _cam_info_msg,
                   envVars, locVars, obsVars>>

\* line 280: img = self._dshot.get_latest_frame()
GetLatestFrame ==
    /\ pc = "get_latest_frame"
    /\ img' = RGBFrame
    /\ events' = Append(events, "get_latest_frame")
    /\ pc' = "cvtColor"
    /\ UNCHANGED <<exc, exit_code, cfgVars, dimVars,
                   dshotVars, rosVars, _cam_info_msg,
                   envVars, have_raw_subs, have_compressed_subs, stamp, cycle,
                   msgs, active_at_check, conns_at_gate>>

\* line 284: img = cv2.cvtColor(img, cv2.COLOR_RGB2BGR)
CvtColor ==
    /\ pc = "cvtColor"
    /\ img' = cvtColor_RGB2BGR(img)
    /\ events' = Append(events, "cvtColor")
    /\ pc' = "stamp"
    /\ UNCHANGED <<exc, exit_code, cfgVars, dimVars,
                   dshotVars, rosVars, _cam_info_msg,
                   envVars, have_raw_subs, have_compressed_subs, stamp, cycle,
                   msgs, active_at_check, conns_at_gate>>

\* line 289: stamp = rospy.Time.now()
TimeNow ==
    /\ pc = "stamp"
    /\ stamp' = now
    /\ events' = Append(events, "Time.now")
    /\ pc' = "pub_raw"
    /\ UNCHANGED <<exc, exit_code, cfgVars, dimVars,
                   dshotVars, rosVars, _cam_info_msg,
                   envVars, have_raw_subs, have_compressed_subs, img, cycle,
                   msgs, active_at_check, conns_at_gate>>

\* a publish decision that asks the publisher again
publishes_raw_reread(sampled, pub, conns) == _have_raw_subs(pub, conns)

\* line 302: the raw image goes out when the local have_raw_subs is True
publishes_raw(sampled, pub, conns) == sampled

\* line 308: the compressed image goes out when have_compressed_subs is True
publishes_compressed(sampled, pub, conns) == sampled

\* lines 302-306: encode and publish the raw image
PublishRaw ==
    /\ pc = "pub_raw"
    /\ IF publishes_raw(have_raw_subs, _pub_raw, raw_conns)
       THEN \E outcome \in {"ok", "encode_raises", "publish_raises"} :
              CASE outcome = "ok" ->
                     /\ msgs' = Append(msgs, image_msg(RawTopic, img,
                                                       msg_stamp(stamp, now)))
                     /\ events' = events \o <<"cv2_to_imgmsg", "publish_raw">>
                     /\ pc' = "pub_compressed"
                     /\ UNCHANGED <<exc, exit_code>>
                [] outcome = "encode_raises" ->
                     /\ Raise("EncodePublishError")
                     /\ UNCHANGED <<msgs, events>>
                [] outcome = "publish_raises" ->
                     /\ Raise("EncodePublishError")
                     /\ events' = Append(events, "cv2_to_imgmsg")
                     /\ UNCHANGED msgs
       ELSE /\ pc' = "pub_compressed"
            /\ UNCHANGED <<exc, exit_code, msgs, events>>
    /\ UNCHANGED <<cfgVars, dimVars,
                   dshotVars, rosVars, _cam_info_msg, envVars,
                   locVars, cycle, active_at_check, conns_at_gate>>

\* lines 308-312: encode and publish the compressed image
PublishCompressed ==
    /\ pc = "pub_compressed"
    /\ IF publishes_compressed(have_compressed_subs, _pub_compressed,
                               compressed_conns)
       THEN \E outcome \in {"ok", "encode_raises", "publish_raises"} :
              CASE outcome = "ok" ->
                     /\ msgs' = Append(msgs,
                                  image_msg(CompressedTopic, img,
                                            msg_stamp(stamp, now)))
                     /\ events' = events \o <<"cv2_to_compressed_imgmsg",
                                              "publish_compressed">>
                     /\ pc' = "pub_cinfo"
                     /\ UNCHANGED <<exc, exit_code>>
                [] outcome = "encode_raises" ->
                     /\ Raise("EncodePublishError")
                     /\ UNCHANGED <<msgs, events>>
                [] outcome = "publish_raises" ->
                     /\ Raise("EncodePublishError")
                     /\ events' = Append(events, "cv2_to_compressed_imgmsg")
                     /\ UNCHANGED msgs
       ELSE /\ pc' = "pub_cinfo"
            /\ UNCHANGED <<exc, exit_code, msgs, events>>
    /\ UNCHANGED <<cfgVars, dimVars,
                   dshotVars, rosVars, _cam_info_msg, envVars,
                   locVars, cycle, active_at_check, conns_at_gate>>

\* a CameraInfo that follows the raw image only
publishes_cinfo_raw_only(pub, raw, compressed) == pub /\ raw

\* line 315: a CameraInfo goes out when either image did
publishes_cinfo(pub, raw, compressed) == pub /\ (raw \/ compressed)

\* lines 314-317: stamp and publish self._cam_info_msg; spinOnce returns
PublishCameraInfo ==
    /\ pc = "pub_cinfo"
    /\ IF publishes_cinfo(_pub_cinfo, have_raw_subs, have_compressed_subs)
       THEN /\ _cam_info_msg' =
                  set_header_stamp(_cam_info_msg, msg_stamp(stamp, now))
            /\ \E ok \in BOOLEAN :
                 IF ok
                 THEN /\ msgs' = Append(msgs,
                                   [topic |-> CameraInfoTopic,
                                    stamp |-> _cam_info_msg'.stamp,
                                    data  |-> _cam_info_msg'])
                      /\ events' = Append(events, "publish_cinfo")
                      /\ pc' = "sleep"
                      /\ UNCHANGED <<exc, exit_code>>
                 ELSE /\ Raise("EncodePublishError")
                      /\ UNCHANGED <<msgs, events>>
       ELSE /\ pc' = "sleep"
            /\ UNCHANGED <<exc, exit_code, msgs, events, _cam_info_msg>>
    /\ UNCHANGED <<cfgVars, dimVars,
                   dshotVars, rosVars, envVars, locVars, cycle,
                   active_at_check, conns_at_gate>>

\* ------------------------------------------------ leaving the with block
\* a stop() after which the loop is entered again
D3DShotPublisher_exit_resumes ==
    /\ pc = "exit"
    /\ stop_calls' = stop_calls + 1
    /\ is_capturing' = FALSE
    /\ pc' = IF exc = "none" THEN "loop_head" ELSE "done"
    /\ exit_code' = IF exc = "none" THEN exit_code ELSE status_of(exc)
    /\ UNCHANGED <<exc, cfgVars, dimVars, capture_calls, rosVars,
                   _cam_info_msg, envVars, locVars, obsVars>>

\* lines 243-245: __exit__ calls self._dshot.stop(); then the exception in
\* flight, if any, leaves main()
D3DShotPublisher_exit ==
    /\ pc = "exit"
    /\ stop_calls' = stop_calls + 1
    /\ is_capturing' = FALSE
    /\ pc' = "done"
    /\ exc' = IF exit_suppresses THEN "none" ELSE exc
    /\ exit_code' = status_of(exc')
    /\ UNCHANGED <<cfgVars, dimVars,
                   capture_calls, rosVars, _cam_info_msg, envVars,
                   locVars, obsVars>>

\* --------------------------------------------------------- environment
\* a subscriber connects to or disconnects from the raw topic
RawConnsChange ==
    /\ node_init /\ pc # "done"
    /\ \E n \in (0..MaxSubs) \ {raw_conns} : raw_conns' = n
    /\ UNCHANGED <<pc, exc, exit_code, cfgVars, dimVars, dshotVars, rosVars,
                   _cam_info_msg, compressed_conns, shutdown, now, locVars,
                   obsVars>>

\* a subscriber connects to or disconnects from the compressed topic
CompressedConnsChange ==
    /\ node_init /\ pc # "done"
    /\ \E n \in (0..MaxSubs) \ {compressed_conns} : compressed_conns' = n
    /\ UNCHANGED <<pc, exc, exit_code, cfgVars, dimVars, dshotVars, rosVars,
                   _cam_info_msg, raw_conns, shutdown, now, locVars, obsVars>>

\* the clock behind rospy.Time.now() advances
Tick ==
    /\ node_init /\ pc # "done"
    /\ now < MaxTime
    /\ now' = now + 1
    /\ UNCHANGED <<pc, exc, exit_code, cfgVars, dimVars, dshotVars, rosVars,
                   _cam_info_msg, raw_conns, compressed_conns, shutdown,
                   locVars, obsVars>>

\* the d3dshot capture stops on its own
CaptureStalls ==
    /\ is_capturing /\ pc # "done"
    /\ is_capturing' = FALSE
    /\ UNCHANGED <<pc, exc, exit_code, cfgVars, dimVars,
                   capture_calls, stop_calls,
                   rosVars, _cam_info_msg, envVars, locVars, obsVars>>

\* SIGINT: KeyboardInterrupt in main() until rospy.init_node(..) has
\* installed rospy's handler, a shutdown request afterwards
Signal ==
    /\ pc # "done" /\ ~shutdown
    /\ IF node_init
       THEN shutdown' = TRUE /\ UNCHANGED <<pc, exc, exit_code>>
       ELSE Abort("KeyboardInterrupt") /\ UNCHANGED shutdown
    /\ UNCHANGED <<cfgVars, dimVars,
                   dshotVars, rosVars, _cam_info_msg, raw_conns,
                   compressed_conns, now, locVars, obsVars>>

\* -------------------------------------------------------- specification
spinOnce ==
    \/ CheckCapturing
    \/ GateRaw
    \/ GateCompressed
    \/ AnySubs
    \/ GetLatestFrame
    \/ CvtColor
    \/ TimeNow
    \/ PublishRaw
    \/ PublishCompressed
    \/ PublishCameraInfo

main ==
    \/ FindWindow
    \/ setup_d3dshot
    \/ WarmUp
    \/ InitNode
    \/ D3DShotPublisher_init
    \/ spin
    \/ LoopHead
    \/ spinOnce
    \/ RateSleep
    \/ D3DShotPublisher_exit

Environment ==
    \/ RawConnsChange
    \/ CompressedConnsChange
    \/ Tick
    \/ CaptureStalls
    \/ Signal

Next == main \/ Environment

Spec == Init /\ [][Next]_vars

\* the runs whose command-line arguments and window vary
SpecArgs == InitArgs /\ [][Next]_vars

\* the interpreter keeps running main() until it returns or raises
FairSpec == Spec /\ WF_vars(main)

\* ---------------------------------------------------------- properties
\* number of messages the current cycle published on a topic
Published(topic) == Cardinality({i \in DOMAIN msgs : msgs[i].topic = topic})

\* number of times the current cycle made a call
Called(e) == Cardinality({i \in DOMAIN events : events[i] = e})

\* spinOnce() has returned and the next one has not begun
CycleReturned == cycle >= 1 /\ pc \in {"sleep", "loop_head"}

\* both gates of the current cycle have been read
GatesRead == Called("have_raw_subs") = 1 /\ Called("have_compressed_subs") = 1

\* main() is inside spin()
Running == pc \in {"loop_head", "spinOnce", "have_raw_subs",
                   "have_compressed_subs", "any_subs", "get_latest_frame",
                   "cvtColor", "stamp", "pub_raw", "pub_compressed",
                   "pub_cinfo", "sleep"}

\* C1: once dshot.capture(..) has succeeded, dshot.stop() has been called
\* exactly once when main() has ended, whichever way it ended, and is never
\* called twice.
C1_StopExactlyOnce ==
    /\ stop_calls <= 1
    /\ (pc = "done" /\ capture_calls >= 1) => stop_calls = 1

\* C2: a cycle whose two gates were both read False pulls no frame, converts
\* and encodes nothing and publishes nothing: the only calls it makes are
\* the capture check and the two gate reads.
C2_IdleCycleDoesNothing ==
    (cycle >= 1 /\ GatesRead /\ ~have_raw_subs /\ ~have_compressed_subs)
        => /\ events = <<"is_capturing", "have_raw_subs",
                         "have_compressed_subs">>
           /\ msgs = <<>>
           /\ img = NoFrame
           /\ stamp = NoStamp

C2_Witness ==
    /\ pc = "sleep"
    /\ GatesRead
    /\ ~have_raw_subs /\ ~have_compressed_subs
    /\ _pub_raw /\ _pub_compressed

\* C3: all messages one cycle publishes (raw, compressed, camera_info) carry
\* the same stamp, the one read at line 289.
C3_SharedStamp ==
    \A i \in DOMAIN msgs :
        /\ msgs[i].stamp = stamp
        /\ \A j \in DOMAIN msgs : msgs[i].stamp = msgs[j].stamp

C3_Witness ==
    /\ Len(msgs) = 3
    /\ stamp < now
    /\ \E i \in DOMAIN msgs : msgs[i].stamp = stamp

\* C4: a cycle publishes at most one raw and at most one compressed image,
\* each only on a channel that was enabled and had a connection when its
\* gate was read; a cycle that ran to its end published the raw image
\* exactly when the raw channel was enabled and connected at its gate, and
\* the compressed image exactly when the compressed channel was, each
\* decided on its own.
C4_ImagePerGate ==
    /\ Published(RawTopic) <= 1
    /\ Published(CompressedTopic) <= 1
    /\ Published(RawTopic) = 1 => (pub_raw /\ conns_at_gate.raw > 0)
    /\ Published(CompressedTopic) = 1
           => (pub_compressed /\ conns_at_gate.compressed > 0)
    /\ CycleReturned =>
         /\ active_at_check
         /\ Published(RawTopic) = 1 <=> (pub_raw /\ conns_at_gate.raw > 0)
         /\ Published(CompressedTopic) = 1
                <=> (pub_compressed /\ conns_at_gate.compressed > 0)

C4_Witness ==
    /\ pc = "sleep"
    /\ pub_raw /\ pub_compressed
    /\ conns_at_gate.raw = 1 /\ conns_at_gate.compressed = 0
    /\ Published(RawTopic) = 1
    /\ Published(CompressedTopic) = 0
    /\ Published(CameraInfoTopic) = 1

\* C5: a cycle publishes at most one camera_info, never without an image
\* published before it in the same cycle and never when both gates were
\* False; a cycle that ran to its end published camera_info exactly when it
\* published a raw or a compressed image.
C5_CameraInfoWithImage ==
    /\ Published(CameraInfoTopic) <= 1
    /\ Published(CameraInfoTopic) = 1
           => /\ have_raw_subs \/ have_compressed_subs
              /\ Published(RawTopic) + Published(CompressedTopic) >= 1
              /\ msgs[Len(msgs)].topic = CameraInfoTopic
    /\ CycleReturned =>
         (Published(CameraInfoTopic) = 1
            <=> Published(RawTopic) + Published(CompressedTopic) >= 1)

C5_Witness ==
    /\ pc = "sleep"
    /\ Published(RawTopic) = 0
    /\ Published(CompressedTopic) = 1
    /\ Published(CameraInfoTopic) = 1

\* C6: a channel disabled at construction has no publisher, its gate is
\* False whatever its connection count, and nothing is published on it.
C6_DisabledChannelSilent ==
    /\ ~pub_raw => (~_pub_raw /\ ~have_raw_subs /\ Published(RawTopic) = 0)
    /\ ~pub_compressed => /\ ~_pub_compressed
                          /\ ~have_compressed_subs
                          /\ Published(CompressedTopic) = 0

C6_Witness ==
    /\ pc = "sleep"
    /\ ~pub_compressed /\ pub_raw
    /\ conns_at_gate.compressed > 0
    /\ compressed_conns > 0
    /\ Published(RawTopic) = 1

\* C7: no publisher exists and the node is not initialised unless
\* dshot.capture(..) succeeded before; a failed start ends main() with the
\* ValueError, a non-zero status, no node and no publisher.
C7_NoChannelWithoutCapture ==
    /\ (node_init \/ _pub_raw \/ _pub_compressed \/ _pub_cinfo)
           => capture_calls >= 1
    /\ exc = "ValueError_start"
           => /\ pc = "done"
              /\ exit_code # 0
              /\ capture_calls = 0
              /\ ~node_init
              /\ ~(_pub_raw \/ _pub_compressed \/ _pub_cinfo)

C7_Witness ==
    /\ pc = "done"
    /\ exc = "ValueError_start"
    /\ exit_code = 1

\* C8: when line 269 reads dshot.is_capturing as False, the cycle makes no
\* other call and publishes nothing, main() goes to __exit__ and ends:
\* no further cycle begins, capture(..) is not called again, stop() is
\* called once, and the ValueError leaves main() (non-zero status).
C8_StallIsFatal ==
    /\ [](~active_at_check
            => /\ pc \in {"exit", "done"}
               /\ exc = "ValueError_not_active"
               /\ events = <<"is_capturing">>
               /\ msgs = <<>>
               /\ capture_calls = 1
               /\ pc = "exit" => stop_calls = 0
               /\ pc = "done" => (stop_calls = 1 /\ exit_code = 1))
    /\ [][~active_at_check
            => /\ cycle' = cycle
               /\ capture_calls' = capture_calls
               /\ ~is_capturing'
               /\ ~active_at_check']_vars

C8_Witness ==
    /\ pc = "done"
    /\ ~active_at_check
    /\ _pub_raw /\ raw_conns > 0
    /\ stop_calls = 1
    /\ cycle = 2

\* C9: an encode or publish step that raises does not end the loop: after
\* it main() is still inside spin().
C9_FailureContained ==
    exc = "EncodePublishError" => Running

\* C10: a shutdown request raised while main() is inside spin() leads to
\* main() having ended with dshot.stop() called once and the capture
\* stopped; a loop head that sees the request begins no new cycle.
C10_ShutdownStops ==
    /\ (shutdown /\ Running)
           ~> (pc = "done" /\ stop_calls = 1 /\ ~is_capturing)
    /\ [][(pc = "loop_head" /\ shutdown)
            => (cycle' = cycle /\ pc' \in {"loop_head", "exit"})]_vars

C10_Witness ==
    /\ pc = "done"
    /\ shutdown
    /\ exc = "none"
    /\ cycle >= 1
    /\ stop_calls = 1
    /\ ~is_capturing

\* C11: when main() has ended, its status is 0 exactly when no exception
\* left it, which is the loop head seeing the shutdown request and the with
\* block ending normally; a failed capture start and a capture found
\* inactive by spinOnce both end with a non-zero status.
C11_ExitStatus ==
    pc = "done" =>
        /\ exit_code \in {0, 1}
        /\ exit_code = 0 <=> exc = "none"
        /\ exc = "none" => (shutdown /\ capture_calls = 1 /\ stop_calls = 1)
        /\ capture_calls = 0 => exit_code # 0
        /\ exc \in {"ValueError_start", "ValueError_not_active"}
               => exit_code # 0
        /\ ~active_at_check => exit_code # 0

C11_Witness ==
    /\ pc = "done"
    /\ exit_code = 0
    /\ Len(msgs) = 3

\* the image size main() computes from the window and --region
ConfiguredWidth == width_of(region_extents(window_rect, region))
ConfiguredHeight == height_of(region_extents(window_rect, region))

\* C12: the CameraInfo is built once, by the constructor; from then on its
\* frame_id, width, height, distortion model and matrices are those built
\* from the configured image size, and the only change made to it is the
\* stamp set by the step that publishes it (lines 316-317), which a cycle
\* reaches only with a gate true.
C12_DescriptorFixed ==
    /\ [](_cam_info_msg.built
            => [_cam_info_msg EXCEPT !.stamp = NoStamp]
                 = _create_cam_info_msg(DefaultFrameId, ConfiguredWidth,
                                        ConfiguredHeight))
    /\ [][_cam_info_msg' # _cam_info_msg
            => \/ pc = "construct" /\ ~_cam_info_msg.built
               \/ /\ pc = "pub_cinfo"
                  /\ _cam_info_msg.built
                  /\ have_raw_subs \/ have_compressed_subs
                  /\ _cam_info_msg' = [_cam_info_msg EXCEPT !.stamp = stamp]
                  /\ pc' = "sleep"
                       => msgs'[Len(msgs')] =
                            [topic |-> CameraInfoTopic, stamp |-> stamp,
                             data |-> _cam_info_msg']]_vars

C12_Witness ==
    /\ pc = "sleep"
    /\ cycle = 2
    /\ region # NoRegion
    /\ _cam_info_msg.width = 3 /\ _cam_info_msg.height = 1
    /\ _cam_info_msg.stamp = stamp
    /\ stamp >= 1
    /\ Published(CameraInfoTopic) = 1

\* C13: a rate that is not greater than 0 is rejected before the loop
\* runs: main() is never inside the loop of spin(), and no cycle has run,
\* with rate <= 0.
C13_RatePositive ==
    (Running \/ cycle >= 1) => rate > 0

\* C14: once main() has computed them, the extents it gives to d3dshot and
\* the size it gives to the publisher satisfy width = right - left > 0 and
\* height = bottom - top > 0, for every window and every --region.
C14_RegionPositive ==
    extents # NoExtents =>
        /\ img_width = extents[3] - extents[1]
        /\ img_height = extents[4] - extents[2]
        /\ img_width > 0
        /\ img_height > 0
        /\ _cam_info_msg.built
               => /\ _cam_info_msg.width = img_width
                  /\ _cam_info_msg.height = img_height

BGRFrame == <<"B", "G", "R">>

\* C15: a cycle pulls at most one frame and converts at most once; a cycle
\* with a gate true has, from the stamp step on, pulled exactly one frame
\* and converted it exactly once, whether one or both channels are active,
\* and every image it publishes holds that frame in B, G, R order.
C15_OnePullOneConversion ==
    /\ Called("get_latest_frame") <= 1
    /\ Called("cvtColor") <= Called("get_latest_frame")
    /\ (/\ cycle >= 1
        /\ GatesRead
        /\ have_raw_subs \/ have_compressed_subs
        /\ pc \notin {"any_subs", "get_latest_frame", "cvtColor"})
           => /\ Called("get_latest_frame") = 1
              /\ Called("cvtColor") = 1
              /\ img = BGRFrame
    /\ \A i \in DOMAIN msgs :
           msgs[i].topic \in {RawTopic, CompressedTopic}
               => msgs[i].data = BGRFrame

C15_Witness ==
    /\ pc = "sleep"
    /\ Published(RawTopic) = 1
    /\ Published(CompressedTopic) = 1
    /\ Called("get_latest_frame") = 1
    /\ Called("cvtColor") = 1

\* the calls that come before any encode or publish, and the calls of a
\* cycle that makes all of them, in the order of lines 269-317
BeforePublish ==
    <<"is_capturing", "have_raw_subs", "have_compressed_subs",
      "get_latest_frame", "cvtColor", "Time.now">>

CycleOrder ==
    BeforePublish \o <<"cv2_to_imgmsg", "publish_raw",
                       "cv2_to_compressed_imgmsg", "publish_compressed",
                       "publish_cinfo">>

Rank(e) == CHOOSE i \in DOMAIN CycleOrder : CycleOrder[i] = e

\* C16: the calls of a cycle come in the order capture check, raw gate,
\* compressed gate, frame pull, conversion, clock read, then the encodes and
\* publishes (raw, compressed, camera_info), none of them twice: the stamp
\* is read after the pull and before the first publish.  A cycle's calls
\* are only ever added one step at a time, and the next cycle begins at
\* the loop head, after spinOnce() returned.
C16_CycleOrder ==
    /\ [](/\ \A i \in DOMAIN events :
                /\ events[i] \in {CycleOrder[k] : k \in DOMAIN CycleOrder}
                /\ i <= Len(BeforePublish) => events[i] = CycleOrder[i]
          /\ \A i, j \in DOMAIN events :
                i < j => Rank(events[i]) < Rank(events[j])
          /\ msgs # <<>> => (stamp # NoStamp /\ img # NoFrame))
    /\ [][events' # events
            => \/ /\ pc = "loop_head"
                  /\ pc' = "spinOnce"
                  /\ events' = <<>>
                  /\ cycle' = cycle + 1
               \/ /\ cycle' = cycle
                  /\ Len(events') > Len(events)
                  /\ SubSeq(events', 1, Len(events)) = events]_vars

C16_Witness ==
    /\ pc = "sleep"
    /\ cycle = 2
    /\ events = CycleOrder

\* C17: a cycle reads each gate at most once, and the values read, from
\* the connection counts of that moment, decide the rest of the cycle
\* whatever the subscribers do meanwhile: an image is published only on a
\* channel whose gate was read True, a cycle that returned without a pull
\* read both gates False, and a cycle that returned after a pull published
\* on every channel whose gate was read True, hence something.
C17_GatesSampledOnce ==
    /\ Called("have_raw_subs") <= 1
    /\ Called("have_compressed_subs") <= 1
    /\ (cycle >= 1 /\ GatesRead)
           => /\ have_raw_subs = (pub_raw /\ conns_at_gate.raw > 0)
              /\ have_compressed_subs
                     = (pub_compressed /\ conns_at_gate.compressed > 0)
    /\ Published(RawTopic) >= 1 => have_raw_subs
    /\ Published(CompressedTopic) >= 1 => have_compressed_subs
    /\ CycleReturned =>
         /\ GatesRead
         /\ Called("get_latest_frame") = 0
                <=> (~have_raw_subs /\ ~have_compressed_subs)
         /\ Called("get_latest_frame") = 1 =>
                /\ Published(RawTopic) = (IF have_raw_subs THEN 1 ELSE 0)
                /\ Published(CompressedTopic)
                       = (IF have_compressed_subs THEN 1 ELSE 0)
                /\ Len(msgs) >= 2

C17_Witness ==
    /\ pc = "sleep"
    /\ cycle = 2
    /\ conns_at_gate.raw = 1 /\ raw_conns = 0
    /\ conns_at_gate.compressed = 0 /\ compressed_conns = 1
    /\ _pub_raw /\ _pub_compressed
    /\ Published(RawTopic) = 1
    /\ Published(CompressedTopic) = 0

\* C18: dshot.stop() is the last thing main() does with the capture: once
\* it has been called main() has ended, and from then on no call is made
\* (no is_capturing, no get_latest_frame, no capture, no second stop), no
\* cycle begins and no message is published.
C18_StopIsLast ==
    /\ [](stop_calls >= 1 => (pc = "done" /\ ~is_capturing /\ exit_code # -1))
    /\ [][stop_calls >= 1
            => /\ pc' = pc
               /\ events' = events
               /\ msgs' = msgs
               /\ cycle' = cycle
               /\ capture_calls' = capture_calls
               /\ stop_calls' = stop_calls]_vars

C18_Witness ==
    /\ pc = "done"
    /\ stop_calls = 1
    /\ exc = "ROSInterruptException"
    /\ Len(msgs) = 3

\* C19: after construction the camera_info publisher exists exactly when
\* the raw or the compressed channel is enabled (and not before); the
\* CameraInfo is stamped or published only through an existing publisher;
\* with both channels disabled every cycle still makes the capture check
\* and reads the gates, but pulls no frame and publishes nothing.
C19_CameraInfoChannel ==
    /\ ~_cam_info_msg.built => ~(_pub_raw \/ _pub_compressed \/ _pub_cinfo)
    /\ _cam_info_msg.built
           => /\ _pub_raw = pub_raw
              /\ _pub_compressed = pub_compressed
              /\ _pub_cinfo <=> (pub_raw \/ pub_compressed)
    /\ (Published(CameraInfoTopic) >= 1 \/ _cam_info_msg.stamp # NoStamp)
           => _pub_cinfo
    /\ (~pub_raw /\ ~pub_compressed)
           => /\ msgs = <<>>
              /\ Called("get_latest_frame") = 0
              /\ _cam_info_msg.stamp = NoStamp
              /\ (cycle >= 1 /\ pc # "spinOnce")
                     => events[1] = "is_capturing"
              /\ CycleReturned
                     => events = <<"is_capturing", "have_raw_subs",
                                   "have_compressed_subs">>

C19_Witness ==
    /\ pc = "sleep"
    /\ cycle = 2
    /\ ~pub_raw /\ ~pub_compressed
    /\ ~_pub_cinfo
    /\ raw_conns = 1 /\ compressed_conns = 1
    /\ conns_at_gate.raw = 1

\* two fractions denote the same number
SameNumber(a, b) == a[1] * b[2] = b[1] * a[2]

IsIdentity3(m) ==
    /\ Len(m) = 9
    /\ \A r \in 1..3, c \in 1..3 :
           SameNumber(m[3 * (r - 1) + c], float(IF r = c THEN 1 ELSE 0))

\* C20: the CameraInfo built from (frame_id, width, height) carries the
\* inputs as its width and height; K and P have focal terms and principal
\* point (width/2, height/2), exactly, also for odd sizes; R is the 3x3
\* identity; D is five zeros; and building it again from the same inputs
\* gives the same descriptor.
C20_DescriptorBuilder ==
    _cam_info_msg.built =>
        LET m == _cam_info_msg
            w == float(img_width)
            h == float(img_height)
            twice(q) == <<2 * q[1], q[2]>>
        IN  /\ m.frame_id = DefaultFrameId
            /\ m.width = img_width
            /\ m.height = img_height
            /\ Len(m.K) = 9 /\ Len(m.P) = 12
            /\ SameNumber(twice(m.K[1]), w) /\ SameNumber(twice(m.K[5]), h)
            /\ SameNumber(twice(m.K[3]), w) /\ SameNumber(twice(m.K[6]), h)
            /\ SameNumber(twice(m.P[1]), w) /\ SameNumber(twice(m.P[6]), h)
            /\ SameNumber(twice(m.P[3]), w) /\ SameNumber(twice(m.P[7]), h)
            /\ IsIdentity3(m.R)
            /\ DOMAIN m.D = 1..5
            /\ \A i \in 1..5 : SameNumber(m.D[i], float(0))
            /\ [m EXCEPT !.stamp = NoStamp]
                   = _create_cam_info_msg(m.frame_id, m.width, m.height)

C20_Witness ==
    /\ pc = "sleep"
    /\ _cam_info_msg.built
    /\ _cam_info_msg.width = 3
    /\ _cam_info_msg.height = 5
    /\ _cam_info_msg.K[1] = <<3, 2>>
    /\ _cam_info_msg.P[7] = <<5, 2>>

====
